---- MODULE Spec2Model ----
(***************************************************************************)
(* Change detection and health scoring engine of satteli                   *)
(* (src/sentinel-hub/deforestation_detection.py and its Earth Engine twin  *)
(* src/gee/deforestation_detection.py).                                    *)
(*                                                                         *)
(* Every function of the engine is modelled as an operator that computes   *)
(* what the Python code computes, and as an action that applies it to a    *)
(* pending call.  Init draws the pending call (function and arguments,     *)
(* including what the imagery / fire providers answer) from bounded sets.  *)
(*                                                                         *)
(* Numbers: Python floats are modelled as exact rationals [n, d] in lowest *)
(* terms with d > 0, so comparisons at the documented thresholds are       *)
(* exact.  Python's None is the record None for numeric fields and the     *)
(* string NoneS for string fields (TLC cannot compare a string to a        *)
(* record).                                                                *)
(***************************************************************************)
EXTENDS Integers, Sequences, FiniteSets, TLC

VARIABLES call, ret, boundary, step, results, db, outbox, log

\* the state of a batch scan: the boundary and try block scan_customer is
\* at, its results dict, the alerts handed to the database, the HTTP and
\* email requests made so far, and the try blocks executed so far
scanvars == <<boundary, step, results, db, outbox, log>>

vars == <<call, ret, scanvars>>

(***************************************************************************)
(* Bounds of the model                                                     *)
(***************************************************************************)
\* classify_severity is applied to every area k/1000 ha, 0 <= k <= MaxAreaMilli
MaxAreaMilli == 11000
\* period means are k/20 for -MaxMeanSteps <= k <= MaxMeanSteps
MaxMeanSteps == 20
\* classify_plant_health is applied to every k/1000, |k| <= MaxNdviMilli
MaxNdviMilli == 1000
\* min = mean - a/20 and max = mean + b/20 with 0 <= a, b <= MaxSpreadSteps
MaxSpreadSteps == 5
\* hotspot counts reported by the fire providers
MaxFire == 8
\* the clock reads day numbers 0 .. MaxDay
MaxDay == 1
\* most daily intervals in one statistics response
MaxIntervals == 2
\* most boundaries of the scanned customer
MaxBoundaries == 2

(***************************************************************************)
(* Python values                                                           *)
(***************************************************************************)
None == [none |-> TRUE]
NoneS == "None"
Pending == [pending |-> TRUE]

RECURSIVE GCD(_, _), SeqSum(_), SeqMin(_), SeqMax(_)
GCD(a, b) == IF b = 0 THEN a ELSE GCD(b, a % b)

Abs(x) == IF x < 0 THEN -x ELSE x

\* the rational n/d (d # 0) in lowest terms with a positive denominator
Rat(n, d) ==
    LET s == IF d < 0 THEN -1 ELSE 1
        g == GCD(Abs(n), Abs(d))
    IN  [n |-> (s * n) \div g, d |-> (s * d) \div g]

RLt(a, b) == a.n * b.d < b.n * a.d
RLe(a, b) == a.n * b.d <= b.n * a.d
RGt(a, b) == RLt(b, a)
RGe(a, b) == RLe(b, a)
RAdd(a, b) == Rat(a.n * b.d + b.n * a.d, a.d * b.d)
RSub(a, b) == Rat(a.n * b.d - b.n * a.d, a.d * b.d)
RMul(a, b) == Rat(a.n * b.n, a.d * b.d)
RDiv(a, b) == Rat(a.n * b.d, a.d * b.n)
RMin(a, b) == IF RLt(b, a) THEN b ELSE a
RMax(a, b) == IF RGt(b, a) THEN b ELSE a
\* int(x): truncation towards zero
PyInt(r) == IF r.n >= 0 THEN r.n \div r.d ELSE -((-r.n) \div r.d)
\* truth value of an Optional[float]: None and 0.0 are false
Truthy(x) == x # None /\ x.n # 0

(***************************************************************************)
(* classify_severity (both backends)                                       *)
(***************************************************************************)
\* mutant: the 5 ha bound taken as exclusive
classify_severity_strict(area_ha) ==
    IF RGe(area_ha, Rat(10, 1)) THEN "critical"
    ELSE IF RGt(area_ha, Rat(5, 1)) THEN "high"
    ELSE IF RGe(area_ha, Rat(1, 1)) THEN "medium"
    ELSE "low"

classify_severity(area_ha) ==
    IF RGe(area_ha, Rat(10, 1)) THEN "critical"
    ELSE IF RGe(area_ha, Rat(5, 1)) THEN "high"
    ELSE IF RGe(area_ha, Rat(1, 1)) THEN "medium"
    ELSE "low"

gee_classify_severity(area_ha) ==
    IF RGe(area_ha, Rat(10, 1)) THEN "critical"
    ELSE IF RGe(area_ha, Rat(5, 1)) THEN "high"
    ELSE IF RGe(area_ha, Rat(1, 1)) THEN "medium"
    ELSE "low"



(***************************************************************************)
(* get_ndvi_stats: the Statistical API answer reduced to mean, min, max    *)
(***************************************************************************)
SeqSum(q) == IF q = <<>> THEN Rat(0, 1) ELSE RAdd(Head(q), SeqSum(Tail(q)))

SeqMin(q) == IF Len(q) = 1 THEN q[1] ELSE RMin(Head(q), SeqMin(Tail(q)))

SeqMax(q) == IF Len(q) = 1 THEN q[1] ELSE RMax(Head(q), SeqMax(Tail(q)))

\* lines 249-253: the daily means that are not None
DailyMeans(data) == SelectSeq(data, LAMBDA v : v # None)

\* resp is the outcome of request.get_data(): an exception, or the list of
\* the intervals' mean values (None where an interval has no statistics)
get_ndvi_stats(resp) ==
    IF resp.kind = "ok" /\ DailyMeans(resp.data) # <<>>
    THEN LET ndvi_values == DailyMeans(resp.data)
         IN  [mean |-> RDiv(SeqSum(ndvi_values), Rat(Len(ndvi_values), 1)),
              min |-> SeqMin(ndvi_values),
              max |-> SeqMax(ndvi_values),
              count |-> Len(ndvi_values)]
    ELSE [mean |-> None, min |-> None, max |-> None, count |-> 0]

(***************************************************************************)
(* detect_deforestation (Sentinel Hub backend)                             *)
(***************************************************************************)
TypeError == [raised |-> "TypeError"]

\* a - b on Optional[float]: Python raises TypeError when an operand is None
PySub(a, b) == IF a = None \/ b = None THEN TypeError ELSE RSub(a, b)

\* the pair of '%Y-%m-%d' strings "start to end", as day numbers
Period(start, end) == [start |-> start, end |-> end]

\* mutant: "or" in place of "and"
BothMeansKnown_or(prev_mean, recent_mean) ==
    prev_mean # None \/ recent_mean # None

\* mutant: truth-value test in place of "is not None"
BothMeansKnown_truthy(prev_mean, recent_mean) ==
    Truthy(prev_mean) /\ Truthy(recent_mean)

\* line 338: both period means are known
BothMeansKnown(prev_mean, recent_mean) ==
    prev_mean # None /\ recent_mean # None

\* the "was vegetated" floor of line 346
VegetatedFloor == Rat(4, 10)

\* mutant: the vegetated floor taken as inclusive
SignificantDecrease_ge(ndvi_change, ndvi_threshold, prev_mean) ==
    RGt(ndvi_change, ndvi_threshold) /\ RGe(prev_mean, VegetatedFloor)

\* line 346: significant decrease and area was previously vegetated
SignificantDecrease(ndvi_change, ndvi_threshold, prev_mean) ==
    RGt(ndvi_change, ndvi_threshold) /\ RGt(prev_mean, VegetatedFloor)

\* mutant: the clamp at 100 forgotten
DeforestationPct_unclamped(ndvi_change, prev_mean) ==
    RMul(RDiv(ndvi_change, prev_mean), Rat(100, 1))

\* line 349
DeforestationPct(ndvi_change, prev_mean) ==
    RMin(Rat(100, 1), RMul(RDiv(ndvi_change, prev_mean), Rat(100, 1)))

\* line 350
DeforestationArea(boundary_area_ha, pct) ==
    RMul(boundary_area_ha, RDiv(pct, Rat(100, 1)))

\* mutant: the minimum area taken as exclusive
AreaAlertable_strict(area_ha, min_area_ha) == RGt(area_ha, min_area_ha)

\* line 352
AreaAlertable(area_ha, min_area_ha) == RGe(area_ha, min_area_ha)

detect_deforestation(stats_previous, stats_recent, boundary_area_ha, days_back, ndvi_threshold, min_area_ha, today) ==
    LET recent_end == today
        recent_start == today - days_back
        previous_end == recent_start
        previous_start == previous_end - days_back
        known == BothMeansKnown(stats_previous.mean, stats_recent.mean)
        ndvi_change == IF known
                       THEN PySub(stats_previous.mean, stats_recent.mean)
                       ELSE None
        detected == /\ known
                    /\ ndvi_change # TypeError
                    /\ SignificantDecrease(ndvi_change, ndvi_threshold,
                                           stats_previous.mean)
        deforestation_pct ==
            IF detected
            THEN DeforestationPct(ndvi_change, stats_previous.mean)
            ELSE None
        deforestation_area_ha ==
            IF detected
            THEN DeforestationArea(boundary_area_ha, deforestation_pct)
            ELSE None
        alert_triggered ==
            detected /\ AreaAlertable(deforestation_area_ha, min_area_ha)
        severity == IF alert_triggered
                    THEN classify_severity(deforestation_area_ha)
                    ELSE NoneS
    IN  IF ndvi_change = TypeError THEN TypeError
        ELSE [analysis_date |-> today,
              period_previous |-> Period(previous_start, previous_end),
              period_recent |-> Period(recent_start, recent_end),
              boundary_area_ha |-> boundary_area_ha,
              mean_ndvi_previous |-> stats_previous.mean,
              mean_ndvi_recent |-> stats_recent.mean,
              ndvi_change |-> ndvi_change,
              deforestation_area_ha |-> deforestation_area_ha,
              deforestation_percentage |-> deforestation_pct,
              alert_triggered |-> alert_triggered,
              severity |-> severity,
              coordinates |-> None]

(***************************************************************************)
(* detect_deforestation (Earth Engine backend): the alert decision taken   *)
(* on the area and centroid that Earth Engine reports                      *)
(***************************************************************************)
\* line 184: results['deforestation_area_ha'] and ... >= min_area_ha
GeeAreaAlertable(area_ha, min_area_ha) ==
    Truthy(area_ha) /\ RGe(area_ha, min_area_ha)

gee_detect_deforestation(area_ha, boundary_area_ha, min_area_ha, centroid_info, today) ==
    LET base == [analysis_date |-> today,
                 boundary_area_ha |-> boundary_area_ha,
                 deforestation_area_ha |-> area_ha,
                 alert_triggered |-> FALSE,
                 centroid |-> None]
    IN  IF GeeAreaAlertable(area_ha, min_area_ha)
        THEN [analysis_date |-> today,
              boundary_area_ha |-> boundary_area_ha,
              deforestation_area_ha |-> area_ha,
              alert_triggered |-> TRUE,
              severity |-> gee_classify_severity(area_ha),
              centroid |-> IF centroid_info = "coords"
                           THEN [lon |-> 0, lat |-> 0] ELSE None]
        ELSE base

(***************************************************************************)
(* detect_fire_hotspots (Sentinel Hub backend, NASA FIRMS over HTTP)       *)
(***************************************************************************)
\* lines 456-463: the count taken from the FIRMS answer; resp is the
\* outcome of requests.get: an exception, a status code, and for a 200 the
\* number of lines of the stripped CSV text (header row included)
FirmsCount(resp) ==
    IF resp.kind = "ok" /\ resp.status_code = 200
    THEN (IF resp.lines - 1 > 0 THEN resp.lines - 1 ELSE 0)
    ELSE 0

\* line 471
FireAlert(fire_count) == fire_count > 0

\* mutant: critical only above 5 hotspots
FireSeverity_gt5(fire_count) ==
    IF fire_count > 5 THEN "critical"
    ELSE IF fire_count > 0 THEN "high"
    ELSE NoneS

\* line 472
FireSeverity(fire_count) ==
    IF fire_count >= 5 THEN "critical"
    ELSE IF fire_count > 0 THEN "high"
    ELSE NoneS

detect_fire_hotspots(resp, days_back, today) ==
    LET fire_count == FirmsCount(resp)
    IN  [analysis_date |-> today,
         period |-> days_back,
         fire_detections |-> fire_count,
         alert_triggered |-> FireAlert(fire_count),
         severity |-> FireSeverity(fire_count)]

(***************************************************************************)
(* detect_fire_hotspots (Earth Engine backend)                             *)
(***************************************************************************)
\* line 252: ee.Algorithms.If(count, count, 0); count is None or a number
GeeCountValue(count) == IF Truthy(count) THEN count.n ELSE 0

\* line 263
GeeFireAlert(fire_detections) == fire_detections # 0 /\ fire_detections > 0

gee_detect_fire_hotspots(count, days_back, today) ==
    LET fire_detections == GeeCountValue(count)
        period == Period(today - days_back, today)
    IN  IF GeeFireAlert(fire_detections)
        THEN [analysis_date |-> today,
              period |-> period,
              fire_detections |-> fire_detections,
              alert_triggered |-> TRUE,
              severity |-> IF fire_detections >= 5 THEN "critical"
                           ELSE "high"]
        ELSE [analysis_date |-> today,
              period |-> period,
              fire_detections |-> fire_detections,
              alert_triggered |-> FALSE]

(***************************************************************************)
(* classify_plant_health                                                   *)
(***************************************************************************)
\* a Python int, as a value comparable with None
PyIntVal(k) == Rat(k, 1)

\* lines 533-534: the answer for a missing mean
UnknownHealth == [status |-> "unknown", score |-> PyIntVal(0)]

\* line 537: the score of the band v >= 0.7, before int()
HealthyHighScore(ndvi) ==
    RMin(Rat(100, 1),
         RAdd(Rat(70, 1), RMul(RSub(ndvi, Rat(7, 10)), Rat(100, 1))))

\* line 539: the band 0.5 <= v < 0.7
HealthyScore(ndvi) ==
    RAdd(Rat(50, 1), RMul(RSub(ndvi, Rat(5, 10)), Rat(100, 1)))

\* line 541: the band 0.4 <= v < 0.5
ModerateScore(ndvi) ==
    RAdd(Rat(40, 1), RMul(RSub(ndvi, Rat(4, 10)), Rat(100, 1)))

\* mutant: the 0.3-0.4 band starting from 20 instead of 25
StressedHighScore_base20(ndvi) ==
    RAdd(Rat(20, 1), RMul(RSub(ndvi, Rat(3, 10)), Rat(150, 1)))

\* line 543: the band 0.3 <= v < 0.4
StressedHighScore(ndvi) ==
    RAdd(Rat(25, 1), RMul(RSub(ndvi, Rat(3, 10)), Rat(150, 1)))

\* line 545: the band 0.2 <= v < 0.3
StressedLowScore(ndvi) ==
    RAdd(Rat(15, 1), RMul(RSub(ndvi, Rat(2, 10)), Rat(100, 1)))

\* line 547: the band v < 0.2
CriticalScore(ndvi) == RMax(Rat(0, 1), RMul(ndvi, Rat(75, 1)))

\* mutant: the 0.3-0.4 band with the slope of its neighbours
classify_plant_health_slope(ndvi) ==
    IF ndvi = None THEN UnknownHealth
    ELSE IF RGe(ndvi, Rat(7, 10))
    THEN [status |-> "healthy",
          score |-> PyIntVal(PyInt(RMin(Rat(100, 1),
                       RAdd(Rat(70, 1),
                            RMul(RSub(ndvi, Rat(7, 10)), Rat(100, 1))))))]
    ELSE IF RGe(ndvi, Rat(5, 10))
    THEN [status |-> "healthy",
          score |-> PyIntVal(PyInt(RAdd(Rat(50, 1),
                       RMul(RSub(ndvi, Rat(5, 10)), Rat(100, 1)))))]
    ELSE IF RGe(ndvi, Rat(4, 10))
    THEN [status |-> "moderate",
          score |-> PyIntVal(PyInt(RAdd(Rat(40, 1),
                       RMul(RSub(ndvi, Rat(4, 10)), Rat(100, 1)))))]
    ELSE IF RGe(ndvi, Rat(3, 10))
    THEN [status |-> "stressed",
          score |-> PyIntVal(PyInt(RAdd(Rat(25, 1),
                       RMul(RSub(ndvi, Rat(3, 10)), Rat(100, 1)))))]
    ELSE IF RGe(ndvi, Rat(2, 10))
    THEN [status |-> "stressed",
          score |-> PyIntVal(PyInt(RAdd(Rat(15, 1),
                       RMul(RSub(ndvi, Rat(2, 10)), Rat(100, 1)))))]
    ELSE [status |-> "critical",
          score |-> PyIntVal(PyInt(RMax(Rat(0, 1),
                       RMul(ndvi, Rat(75, 1)))))]

classify_plant_health(ndvi) ==
    IF ndvi = None THEN UnknownHealth
    ELSE IF RGe(ndvi, Rat(7, 10))
    THEN [status |-> "healthy",
          score |-> PyIntVal(PyInt(HealthyHighScore(ndvi)))]
    ELSE IF RGe(ndvi, Rat(5, 10))
    THEN [status |-> "healthy", score |-> PyIntVal(PyInt(HealthyScore(ndvi)))]
    ELSE IF RGe(ndvi, Rat(4, 10))
    THEN [status |-> "moderate",
          score |-> PyIntVal(PyInt(ModerateScore(ndvi)))]
    ELSE IF RGe(ndvi, Rat(3, 10))
    THEN [status |-> "stressed",
          score |-> PyIntVal(PyInt(StressedHighScore(ndvi)))]
    ELSE IF RGe(ndvi, Rat(2, 10))
    THEN [status |-> "stressed",
          score |-> PyIntVal(PyInt(StressedLowScore(ndvi)))]
    ELSE [status |-> "critical",
          score |-> PyIntVal(PyInt(CriticalScore(ndvi)))]

(***************************************************************************)
(* get_health_recommendations                                              *)
(***************************************************************************)
\* lines 556-559
CriticalItems ==
    <<"URGENT: Immediate field inspection required",
      "Check for disease outbreak (Ganoderma, Basal Stem Rot)",
      "Assess irrigation/drainage issues",
      "Consider soil nutrient analysis">>

\* mutant: the first two items of 'stressed' exchanged
StressedItems_reordered ==
    <<"Check soil moisture levels",
      "Schedule field inspection within 1 week",
      "Review fertilization program">>

\* lines 562-564
StressedItems ==
    <<"Schedule field inspection within 1 week",
      "Check soil moisture levels",
      "Review fertilization program">>

\* lines 569-570
ModerateItems ==
    <<"Monitor closely over next 2 weeks",
      "Consider targeted fertilizer application">>

\* line 575
HealthyItems == <<"Continue current management practices">>

\* mutant: a decline of exactly 0.1 counted as rapid
RapidDecline_le(ndvi_change) ==
    Truthy(ndvi_change) /\ RLe(ndvi_change, Rat(-1, 10))

\* line 565: ndvi_change and ndvi_change < -0.1
RapidDecline(ndvi_change) ==
    Truthy(ndvi_change) /\ RLt(ndvi_change, Rat(-1, 10))

\* mutant: a mean of exactly 0.45 counted as young palms
YoungPalms_le(ndvi) == Truthy(ndvi) /\ RLe(ndvi, Rat(45, 100))

\* line 571: ndvi and ndvi < 0.45
YoungPalms(ndvi) == Truthy(ndvi) /\ RLt(ndvi, Rat(45, 100))

\* line 576: ndvi and ndvi > 0.8
ExcellentDensity(ndvi) == Truthy(ndvi) /\ RGt(ndvi, Rat(8, 10))

get_health_recommendations(health_status, ndvi, ndvi_change) ==
    IF health_status = "critical" THEN CriticalItems
    ELSE IF health_status = "stressed"
    THEN StressedItems
         \o (IF RapidDecline(ndvi_change)
             THEN <<"Rapid decline detected - investigate pest/disease">>
             ELSE <<>>)
    ELSE IF health_status = "moderate"
    THEN ModerateItems
         \o (IF YoungPalms(ndvi)
             THEN <<"Young palms may need additional nutrients">>
             ELSE <<>>)
    ELSE IF health_status = "healthy"
    THEN HealthyItems
         \o (IF ExcellentDensity(ndvi)
             THEN <<"Excellent vegetation density">>
             ELSE <<>>)
    ELSE <<>>

(***************************************************************************)
(* analyze_plant_health                                                    *)
(***************************************************************************)
\* lines 623-625
NdviStd(min_ndvi, max_ndvi) ==
    IF min_ndvi # None /\ max_ndvi # None
    THEN RDiv(RSub(max_ndvi, min_ndvi), Rat(4, 1))
    ELSE None

\* lines 631-633
ChangeFromBaseline(baseline_ndvi, mean_ndvi) ==
    IF Truthy(baseline_ndvi) /\ Truthy(mean_ndvi)
    THEN RSub(mean_ndvi, baseline_ndvi)
    ELSE None

\* mutant: evidence of stress already at min = threshold
StressEvidence_le(mean_ndvi, min_ndvi, stress_threshold) ==
    min_ndvi # None /\ mean_ndvi # None /\ RLe(min_ndvi, stress_threshold)

\* lines 638 and 640: statistics known and the minimum below the threshold
StressEvidence(mean_ndvi, min_ndvi, stress_threshold) ==
    min_ndvi # None /\ mean_ndvi # None /\ RLt(min_ndvi, stress_threshold)

\* mutant: the clamp at 100 forgotten
ZScorePct_noclamp(mean_ndvi, ndvi_std, stress_threshold) ==
    LET z_score == RDiv(RSub(stress_threshold, mean_ndvi), ndvi_std)
        raw == RAdd(Rat(50, 1), RMul(z_score, Rat(30, 1)))
    IN  RMax(Rat(0, 1), raw)

\* lines 643-648: the percentage from the z-score
ZScorePct(mean_ndvi, ndvi_std, stress_threshold) ==
    LET z_score == RDiv(RSub(stress_threshold, mean_ndvi), ndvi_std)
        raw == RAdd(Rat(50, 1), RMul(z_score, Rat(30, 1)))
    IN  IF RGt(z_score, Rat(0, 1))
        THEN RMin(Rat(100, 1), RMax(Rat(0, 1), raw))
        ELSE RMax(Rat(0, 1), raw)

\* mutant: the two fixed percentages exchanged
FallbackPct_swapped(mean_ndvi, stress_threshold) ==
    IF RGt(mean_ndvi, stress_threshold) THEN Rat(50, 1) ELSE Rat(10, 1)

\* line 650: the fixed heuristic
FallbackPct(mean_ndvi, stress_threshold) ==
    IF RGt(mean_ndvi, stress_threshold) THEN Rat(10, 1) ELSE Rat(50, 1)

\* lines 636-650
StressedPercentage(mean_ndvi, min_ndvi, ndvi_std, stress_threshold) ==
    IF StressEvidence(mean_ndvi, min_ndvi, stress_threshold)
    THEN IF Truthy(ndvi_std) /\ RGt(ndvi_std, Rat(0, 1))
         THEN ZScorePct(mean_ndvi, ndvi_std, stress_threshold)
         ELSE FallbackPct(mean_ndvi, stress_threshold)
    ELSE None

\* line 651
StressedArea(boundary_area_ha, stressed_percentage) ==
    IF stressed_percentage # None
    THEN RMul(boundary_area_ha, RDiv(stressed_percentage, Rat(100, 1)))
    ELSE None

\* mutant: 'moderate' alerts too
HealthAlert_moderate(health_status) ==
    health_status \in {"moderate", "stressed", "critical"}

\* line 657
HealthAlert(health_status) == health_status \in {"stressed", "critical"}

\* mutant: 'high' from 10 ha inclusive
HealthSeverity_ge(alert_triggered, health_status, stressed_area_ha) ==
    IF alert_triggered
    THEN IF health_status = "critical" THEN "critical"
         ELSE IF Truthy(stressed_area_ha) /\ RGe(stressed_area_ha, Rat(10, 1))
              THEN "high"
              ELSE "medium"
    ELSE NoneS

\* mutant: the final "else: medium" forgotten
HealthSeverity_noelse(alert_triggered, health_status, stressed_area_ha) ==
    IF alert_triggered
    THEN IF health_status = "critical" THEN "critical"
         ELSE IF Truthy(stressed_area_ha) /\ RGt(stressed_area_ha, Rat(10, 1))
              THEN "high"
              ELSE NoneS
    ELSE NoneS

\* lines 658-665
HealthSeverity(alert_triggered, health_status, stressed_area_ha) ==
    IF alert_triggered
    THEN IF health_status = "critical" THEN "critical"
         ELSE IF Truthy(stressed_area_ha) /\ RGt(stressed_area_ha, Rat(10, 1))
              THEN "high"
              ELSE "medium"
    ELSE NoneS

analyze_plant_health(stats, boundary_area_ha, baseline_ndvi, stress_threshold, today) ==
    LET mean_ndvi == stats.mean
        min_ndvi == stats.min
        max_ndvi == stats.max
        ndvi_std == NdviStd(min_ndvi, max_ndvi)
        health == classify_plant_health(mean_ndvi)
        ndvi_change_from_baseline == ChangeFromBaseline(baseline_ndvi, mean_ndvi)
        stressed_percentage ==
            StressedPercentage(mean_ndvi, min_ndvi, ndvi_std, stress_threshold)
        stressed_area_ha == StressedArea(boundary_area_ha, stressed_percentage)
        recommendations ==
            get_health_recommendations(health.status, mean_ndvi,
                                       ndvi_change_from_baseline)
        alert_triggered == HealthAlert(health.status)
    IN  [analysis_date |-> today,
         boundary_area_ha |-> boundary_area_ha,
         mean_ndvi |-> mean_ndvi,
         min_ndvi |-> min_ndvi,
         max_ndvi |-> max_ndvi,
         ndvi_std |-> ndvi_std,
         health_status |-> health.status,
         health_score |-> health.score,
         baseline_ndvi |-> baseline_ndvi,
         ndvi_change_from_baseline |-> ndvi_change_from_baseline,
         stressed_area_ha |-> stressed_area_ha,
         stressed_percentage |-> stressed_percentage,
         recommendations |-> recommendations,
         alert_triggered |-> alert_triggered,
         severity |-> HealthSeverity(alert_triggered, health.status,
                                     stressed_area_ha)]

(***************************************************************************)
(* Pending calls                                                           *)
(***************************************************************************)
AreaGrid == {Rat(k, 1000) : k \in 0..MaxAreaMilli}

SeverityCalls ==
    [op : {"classify_severity", "gee_classify_severity"}, area_ha : AreaGrid]

MeanGrid == {Rat(k, 20) : k \in -MaxMeanSteps..MaxMeanSteps}

\* what get_ndvi_stats hands to detect_deforestation: a mean, or None
PeriodStats == [mean : MeanGrid \cup {None}]

BoundaryAreas == {Rat(0, 1), Rat(1, 1), Rat(8, 1), Rat(1000, 1)}
NdviThresholds == {Rat(3, 10), Rat(1, 10), Rat(0, 1)}
MinAreas == {Rat(1, 2), Rat(5, 1)}
DaysBack == {0, 1, 30}
Days == 0..MaxDay

DeforestationCalls ==
    [op : {"detect_deforestation"},
     stats_previous : PeriodStats, stats_recent : PeriodStats,
     boundary_area_ha : BoundaryAreas, days_back : DaysBack,
     ndvi_threshold : NdviThresholds, min_area_ha : MinAreas]

GeeAreas == {Rat(k, 4) : k \in 0..44} \cup {None}

GeeDeforestationCalls ==
    [op : {"gee_detect_deforestation"},
     area_ha : GeeAreas, boundary_area_ha : {Rat(8, 1), Rat(1000, 1)},
     min_area_ha : MinAreas, centroid_info : {"raises", "none", "coords"}]

\* what requests.get(area_url) does
FirmsResponses ==
    {[kind |-> "exception"]}
    \cup [kind : {"ok"}, status_code : {200, 500}, lines : 1..(MaxFire + 1)]

FireCalls == [op : {"detect_fire_hotspots"}, resp : FirmsResponses,
              days_back : {7}]

GeeFireCalls == [op : {"gee_detect_fire_hotspots"},
                 count : {PyIntVal(k) : k \in 0..MaxFire} \cup {None}, days_back : {7}]

NdviGrid == {Rat(k, 1000) : k \in -MaxNdviMilli..MaxNdviMilli}

ClassifyHealthCalls == [op : {"classify_plant_health"},
                        ndvi : NdviGrid \cup {None}]

\* what get_ndvi_stats returns: mean, min and max of the daily means (so
\* min <= mean <= max), or all three None
NoStats == [mean |-> None, min |-> None, max |-> None]

KnownStats ==
    {[mean |-> Rat(k, 20), min |-> Rat(k - a, 20), max |-> Rat(k + b, 20)] :
        <<k, a, b>> \in {t \in (-MaxMeanSteps..MaxMeanSteps)
                                \X (0..MaxSpreadSteps) \X (0..MaxSpreadSteps) :
                            /\ t[1] - t[2] >= -MaxMeanSteps
                            /\ t[1] + t[3] <= MaxMeanSteps}}

Baselines == {None, Rat(0, 1), Rat(4, 10), Rat(45, 100), Rat(8, 10)}
StressThresholds == {Rat(4, 10), Rat(3, 10)}
HealthAreas == {Rat(8, 1), Rat(20, 1), Rat(100, 1)}

HealthCalls ==
    [op : {"analyze_plant_health"}, stats : KnownStats \cup {NoStats},
     boundary_area_ha : HealthAreas, baseline_ndvi : Baselines,
     stress_threshold : StressThresholds]

DailyValues == {None, Rat(0, 1), Rat(1, 2), Rat(-1, 4)}

IntervalLists == UNION {[1..n -> DailyValues] : n \in 0..MaxIntervals}

\* what request.get_data() does
StatsResponses ==
    {[kind |-> "exception"]} \cup [kind : {"ok"}, data : IntervalLists]

NdviStatsCalls == [op : {"get_ndvi_stats"}, resp : StatsResponses]

HealthStatuses == {"critical", "stressed", "moderate", "healthy", "unknown"}

RecommendationCalls ==
    [op : {"get_health_recommendations"}, health_status : HealthStatuses,
     ndvi : MeanGrid \cup {None}, ndvi_change : MeanGrid \cup {None}]

Calls ==
    SeverityCalls \cup DeforestationCalls \cup GeeDeforestationCalls
    \cup FireCalls \cup GeeFireCalls \cup ClassifyHealthCalls
    \cup HealthCalls \cup RecommendationCalls \cup NdviStatsCalls

(***************************************************************************)
(* Actions                                                                 *)
(***************************************************************************)
ClassifySeverity ==
    /\ call.op = "classify_severity"
    /\ ret = Pending
    /\ ret' = [severity |-> classify_severity(call.area_ha)]
    /\ UNCHANGED <<call, scanvars>>

GeeClassifySeverity ==
    /\ call.op = "gee_classify_severity"
    /\ ret = Pending
    /\ ret' = [severity |-> gee_classify_severity(call.area_ha)]
    /\ UNCHANGED <<call, scanvars>>

DetectDeforestation ==
    /\ call.op = "detect_deforestation"
    /\ ret = Pending
    /\ \E today \in Days :
          ret' = detect_deforestation(call.stats_previous, call.stats_recent,
                                      call.boundary_area_ha, call.days_back,
                                      call.ndvi_threshold, call.min_area_ha,
                                      today)
    /\ UNCHANGED <<call, scanvars>>

GeeDetectDeforestation ==
    /\ call.op = "gee_detect_deforestation"
    /\ ret = Pending
    /\ \E today \in Days :
          ret' = gee_detect_deforestation(call.area_ha, call.boundary_area_ha,
                                          call.min_area_ha,
                                          call.centroid_info, today)
    /\ UNCHANGED <<call, scanvars>>

DetectFireHotspots ==
    /\ call.op = "detect_fire_hotspots"
    /\ ret = Pending
    /\ \E today \in Days :
          ret' = detect_fire_hotspots(call.resp, call.days_back, today)
    /\ UNCHANGED <<call, scanvars>>

GeeDetectFireHotspots ==
    /\ call.op = "gee_detect_fire_hotspots"
    /\ ret = Pending
    /\ \E today \in Days :
          ret' = gee_detect_fire_hotspots(call.count, call.days_back, today)
    /\ UNCHANGED <<call, scanvars>>

ClassifyPlantHealth ==
    /\ call.op = "classify_plant_health"
    /\ ret = Pending
    /\ ret' = classify_plant_health(call.ndvi)
    /\ UNCHANGED <<call, scanvars>>

AnalyzePlantHealth ==
    /\ call.op = "analyze_plant_health"
    /\ ret = Pending
    /\ \E today \in Days :
          ret' = analyze_plant_health(call.stats, call.boundary_area_ha,
                                      call.baseline_ndvi,
                                      call.stress_threshold, today)
    /\ UNCHANGED <<call, scanvars>>

GetNdviStats ==
    /\ call.op = "get_ndvi_stats"
    /\ ret = Pending
    /\ ret' = get_ndvi_stats(call.resp)
    /\ UNCHANGED <<call, scanvars>>

GetHealthRecommendations ==
    /\ call.op = "get_health_recommendations"
    /\ ret = Pending
    /\ ret' = [recommendations |->
                  get_health_recommendations(call.health_status, call.ndvi,
                                             call.ndvi_change)]
    /\ UNCHANGED <<call, scanvars>>

\* lines 490-498 of batch_scanner.py: the results dict of scan_customer
NoResults ==
    [boundaries_scanned |-> 0, alerts_triggered |-> 0, alerts |-> <<>>,
     health_reports |-> 0, pu_used |-> 0]

\* no scan is running
ScanIdle ==
    /\ boundary = 0
    /\ step = "idle"
    /\ results = NoResults
    /\ db = <<>>
    /\ outbox = <<>>
    /\ log = <<>>

Init ==
    /\ call \in Calls
    /\ ret = Pending
    /\ ScanIdle

Next ==
    \/ ClassifySeverity
    \/ GeeClassifySeverity
    \/ DetectDeforestation
    \/ GeeDetectDeforestation
    \/ DetectFireHotspots
    \/ GeeDetectFireHotspots
    \/ ClassifyPlantHealth
    \/ AnalyzePlantHealth
    \/ GetHealthRecommendations
    \/ GetNdviStats

Spec == Init /\ [][Next]_vars

(***************************************************************************)
(* batch_scanner.py (both backends): notifications                         *)
(*                                                                         *)
(* A send function either raises, or returns after making the requests     *)
(* listed in 'requests' (its boolean result is ignored by scan_customer).  *)
(***************************************************************************)
NoRequest == [raised |-> FALSE, requests |-> <<>>]

Raises == [raised |-> TRUE, requests |-> <<>>]

Request(channel, alert) ==
    [raised |-> FALSE,
     requests |-> <<[channel |-> channel, type |-> alert.type, boundary |-> alert.boundary]>>]

\* f"{value:.1f}": a float is formatted, None raises TypeError
FixedFormatRaises(value) == value = None

\* f"{value:.3f if value else 'N/A'}": everything after the colon is the
\* format specification, which no float accepts (ValueError) and None
\* rejects (TypeError)
ConditionalFormatRaises(value) == TRUE

\* mutant: the gateway is called without looking at dry_run
send_whatsapp_alert_nodry(alert, dry_run, fonnte_token) ==
    IF FixedFormatRaises(alert.affected_hectares) THEN Raises
    ELSE IF ~fonnte_token THEN NoRequest
    ELSE Request("whatsapp", alert)

\* sentinel-hub/batch_scanner.py lines 169-217; the message of lines
\* 181-192 is built before dry_run is looked at (line 194), and
\* requests.post is inside try/except
send_whatsapp_alert(alert, dry_run, fonnte_token) ==
    IF FixedFormatRaises(alert.affected_hectares) THEN Raises
    ELSE IF dry_run THEN NoRequest
    ELSE IF ~fonnte_token THEN NoRequest
    ELSE Request("whatsapp", alert)

\* sentinel-hub/batch_scanner.py lines 425-481; the html of lines 447-470 is
\* built inside try/except, after the dry_run and API key checks
send_email_alert(alert, dry_run, resend_api_key) ==
    IF dry_run THEN NoRequest
    ELSE IF ~resend_api_key THEN NoRequest
    ELSE IF ConditionalFormatRaises(alert.affected_hectares) THEN NoRequest
    ELSE Request("email", alert)

\* sentinel-hub/batch_scanner.py lines 220-281; the message of lines
\* 234-247 is built before dry_run is looked at
send_whatsapp_health_report(report, dry_run, fonnte_token) ==
    IF ConditionalFormatRaises(report.mean_ndvi) THEN Raises
    ELSE IF dry_run THEN NoRequest
    ELSE IF ~fonnte_token THEN NoRequest
    ELSE Request("whatsapp", report)

\* sentinel-hub/batch_scanner.py lines 284-380
send_email_health_report(report, dry_run, resend_api_key) ==
    IF dry_run THEN NoRequest
    ELSE IF ~resend_api_key THEN NoRequest
    ELSE IF ConditionalFormatRaises(report.mean_ndvi) THEN NoRequest
    ELSE Request("email", report)

\* gee/batch_scanner.py lines 141-189
gee_send_whatsapp_alert(alert, dry_run, fonnte_token) ==
    IF FixedFormatRaises(alert.affected_hectares) THEN Raises
    ELSE IF dry_run THEN NoRequest
    ELSE IF ~fonnte_token THEN NoRequest
    ELSE Request("whatsapp", alert)

\* gee/batch_scanner.py lines 192-242; the html is built inside try/except
gee_send_email_alert(alert, dry_run, resend_api_key) ==
    IF dry_run THEN NoRequest
    ELSE IF ~resend_api_key THEN NoRequest
    ELSE IF FixedFormatRaises(alert.affected_hectares) THEN NoRequest
    ELSE Request("email", alert)

(***************************************************************************)
(* batch_scanner.py (both backends): scan_customer                         *)
(***************************************************************************)
Gee == call.backend = "gee"

\* lines 543-546 (gee 293-296): WhatsApp if the customer has a phone, then
\* email if the customer has an email; an exception leaves the block
NotifyAlert(alert) ==
    LET w == IF ~call.phone THEN NoRequest
             ELSE IF Gee
             THEN gee_send_whatsapp_alert(alert, call.dry_run, call.fonnte_token)
             ELSE send_whatsapp_alert(alert, call.dry_run, call.fonnte_token)
        e == IF ~call.email THEN NoRequest
             ELSE IF Gee
             THEN gee_send_email_alert(alert, call.dry_run, call.resend_api_key)
             ELSE send_email_alert(alert, call.dry_run, call.resend_api_key)
    IN  IF w.raised THEN Raises
        ELSE [raised |-> FALSE, requests |-> w.requests \o e.requests]

\* lines 628-631
NotifyHealth(report) ==
    LET w == IF ~call.phone THEN NoRequest
             ELSE send_whatsapp_health_report(report, call.dry_run, call.fonnte_token)
        e == IF ~call.email THEN NoRequest
             ELSE send_email_health_report(report, call.dry_run, call.resend_api_key)
    IN  IF w.raised THEN Raises
        ELSE [raised |-> FALSE, requests |-> w.requests \o e.requests]

\* lines 548-549, 588-589, 633-639: the alert is counted and listed once the
\* notifications have returned
Accounted(res, alert, notified) ==
    IF notified.raised THEN res
    ELSE [res EXCEPT !.alerts_triggered = @ + 1, !.alerts = Append(@, alert)]

\* the 'hectares' of a boundary of the sample data
Hectares == Rat(1100, 1)

\* lines 504-505: max(1, int(hectares / 100 * 0.8))
EstimatedPu ==
    LET pu == PyInt(RMul(RDiv(Hectares, Rat(100, 1)), Rat(8, 10)))
    IN  IF pu > 1 THEN pu ELSE 1

\* what a detection call of scan_customer does: it raises, or returns a
\* finding without or with an alert (affected is the finding's area)
Detections(areas) ==
    {[kind |-> "raised", alert_triggered |-> FALSE, affected |-> None]}
    \cup [kind : {"returned"}, alert_triggered : {FALSE}, affected : {None}]
    \cup [kind : {"returned"}, alert_triggered : {TRUE}, affected : areas]

Entry(detection) == [boundary |-> boundary, step |-> step, detection |-> detection.kind]

HealthIncluded == ~Gee /\ call.include_health

\* mutant: no except clause, an exception of the detection ends the scan
Advance_uncaught(next) ==
    IF log'[Len(log')].detection = "raised"
    THEN boundary' = call.boundaries + 1 /\ step' = "deforestation"
    ELSE IF next = "deforestation"
    THEN boundary' = boundary + 1 /\ step' = "deforestation"
    ELSE boundary' = boundary /\ step' = next

\* the try block that follows the current one: 'except Exception' (lines
\* 555, 595, 645) lets the loop go on whatever the block raised
Advance(next) ==
    IF next = "deforestation"
    THEN boundary' = boundary + 1 /\ step' = "deforestation"
    ELSE boundary' = boundary /\ step' = next

InLoop(block) ==
    /\ call.op = "scan_customer"
    /\ ret = Pending
    /\ boundary <= call.boundaries
    /\ step = block

\* lines 500-556 (gee 259-306): PU estimate and the deforestation try block
ScanDeforestation ==
    /\ InLoop("deforestation")
    /\ \E finding \in Detections({Rat(5, 2)}) :
          LET alert == [type |-> "deforestation", boundary |-> boundary,
                        affected_hectares |-> finding.affected]
              notified == IF finding.alert_triggered THEN NotifyAlert(alert) ELSE NoRequest
              estimated == [results EXCEPT !.pu_used = @ + (IF Gee THEN 0 ELSE EstimatedPu * 2)]
              scanned == [estimated EXCEPT !.boundaries_scanned = @ + 1]
          IN  /\ log' = Append(log, Entry(finding))
              /\ IF finding.kind = "raised"
                 THEN results' = estimated /\ UNCHANGED <<db, outbox>>
                 ELSE /\ db' = IF finding.alert_triggered THEN Append(db, alert) ELSE db
                      /\ outbox' = outbox \o notified.requests
                      /\ results' = IF finding.alert_triggered
                                    THEN Accounted(scanned, alert, notified)
                                    ELSE scanned
    /\ Advance("fire")
    /\ UNCHANGED <<call, ret>>

\* lines 558-596 (gee 308-346): the fire try block
ScanFire ==
    /\ InLoop("fire")
    /\ \E finding \in Detections({None}) :
          LET alert == [type |-> "fire", boundary |-> boundary,
                        affected_hectares |-> None]
              notified == IF finding.alert_triggered THEN NotifyAlert(alert) ELSE NoRequest
          IN  /\ log' = Append(log, Entry(finding))
              /\ db' = IF finding.alert_triggered THEN Append(db, alert) ELSE db
              /\ outbox' = outbox \o notified.requests
              /\ results' = IF finding.alert_triggered
                            THEN Accounted(results, alert, notified)
                            ELSE results
    /\ Advance(IF HealthIncluded THEN "health" ELSE "deforestation")
    /\ UNCHANGED <<call, ret>>

\* lines 598-646: the plant health try block
ScanHealth ==
    /\ InLoop("health")
    /\ \E report \in Detections({Rat(5, 2)}) :
          LET alert == [type |-> "crop_stress", boundary |-> boundary,
                        affected_hectares |-> report.affected]
              health == [type |-> "crop_stress", boundary |-> boundary,
                         mean_ndvi |-> Rat(35, 100)]
              notified == IF report.alert_triggered THEN NotifyHealth(health) ELSE NoRequest
              stored == [results EXCEPT !.pu_used = @ + EstimatedPu,
                                        !.health_reports = @ + 1]
          IN  /\ log' = Append(log, Entry(report))
              /\ IF report.kind = "raised"
                 THEN UNCHANGED <<results, db, outbox>>
                 ELSE /\ db' = IF report.alert_triggered THEN Append(db, alert) ELSE db
                      /\ outbox' = outbox \o notified.requests
                      /\ results' = IF report.alert_triggered
                                    THEN Accounted(stored, alert, notified)
                                    ELSE stored
    /\ Advance("deforestation")
    /\ UNCHANGED <<call, ret>>

\* line 648 (gee 348): return results
ScanReturn ==
    /\ call.op = "scan_customer"
    /\ ret = Pending
    /\ boundary > call.boundaries
    /\ ret' = results
    /\ step' = "done"
    /\ UNCHANGED <<call, boundary, results, db, outbox, log>>

\* scan_customer(customer, dry_run, include_health) of one backend, with the
\* environment it reads (FONNTE_TOKEN, RESEND_API_KEY)
ScanCalls ==
    {c \in [op : {"scan_customer"}, backend : {"sentinel-hub", "gee"},
            phone : BOOLEAN, email : BOOLEAN, dry_run : BOOLEAN,
            include_health : BOOLEAN, fonnte_token : BOOLEAN,
            resend_api_key : BOOLEAN, boundaries : 0..MaxBoundaries] :
        c.backend = "gee" => ~c.include_health}

ScanInit ==
    /\ call \in ScanCalls
    /\ ret = Pending
    /\ boundary = 1
    /\ step = "deforestation"
    /\ results = NoResults
    /\ db = <<>>
    /\ outbox = <<>>
    /\ log = <<>>

ScanNext ==
    \/ ScanDeforestation
    \/ ScanFire
    \/ ScanHealth
    \/ ScanReturn

ScanSpec == ScanInit /\ [][ScanNext]_vars

(***************************************************************************)
(* Vocabulary of the properties                                            *)
(***************************************************************************)
Returned(op) == call.op = op /\ ret # Pending

Severities == {"low", "medium", "high", "critical"}

\* the value k/1000 as an integer number of thousandths (exact on the grids)
Milli(r) == (r.n * 1000) \div r.d

IsNumber(x) == DOMAIN x = {"n", "d"}

(***************************************************************************)
(* C1  classify_severity, in both backends, maps every area >= 0 to        *)
(* 'critical' from 10 ha, else 'high' from 5 ha, else 'medium' from 1 ha,  *)
(* else 'low'; the lower bounds are inclusive and every area has a tier.   *)
(***************************************************************************)
C1_SeverityThresholds ==
    (Returned("classify_severity") \/ Returned("gee_classify_severity")) =>
        LET k == Milli(call.area_ha)
        IN  /\ ret.severity \in Severities
            /\ ret.severity = "critical" <=> k >= 10000
            /\ ret.severity = "high" <=> (5000 <= k /\ k < 10000)
            /\ ret.severity = "medium" <=> (1000 <= k /\ k < 5000)
            /\ ret.severity = "low" <=> k < 1000

C1_Witness ==
    /\ Returned("classify_severity")
    /\ call.area_ha = Rat(5, 1)
    /\ ret.severity = "high"

(***************************************************************************)
(* C2  Every finding (deforestation, fire, plant health; both backends)    *)
(* whose alert_triggered is true carries a severity among low, medium,     *)
(* high, critical; a fire finding's severity is only high or critical.     *)
(***************************************************************************)
FireOps == {"detect_fire_hotspots", "gee_detect_fire_hotspots"}

FindingOps ==
    FireOps \cup {"detect_deforestation", "gee_detect_deforestation",
                  "analyze_plant_health"}

C2_AlertHasSeverity ==
    (/\ call.op \in FindingOps
     /\ ret # Pending
     /\ "alert_triggered" \in DOMAIN ret
     /\ ret.alert_triggered) =>
        /\ "severity" \in DOMAIN ret
        /\ ret.severity \in Severities
        /\ call.op \in FireOps => ret.severity \in {"high", "critical"}

C2_Witness ==
    /\ Returned("analyze_plant_health")
    /\ ret.alert_triggered
    /\ ret.health_status = "stressed"
    /\ ret.severity = "medium"

(***************************************************************************)
(* C3  detect_deforestation with an unknown previous or recent mean        *)
(* returns, without raising, a finding whose ndvi_change, affected area,   *)
(* affected percentage and severity are null and whose alert is false.     *)
(***************************************************************************)
C3_UnknownMeanInconclusive ==
    (/\ Returned("detect_deforestation")
     /\ (call.stats_previous.mean = None \/ call.stats_recent.mean = None)) =>
        /\ ret # TypeError
        /\ ret.ndvi_change = None
        /\ ret.deforestation_area_ha = None
        /\ ret.deforestation_percentage = None
        /\ ret.severity = NoneS
        /\ ret.alert_triggered = FALSE

C3_Witness ==
    /\ Returned("detect_deforestation")
    /\ call.stats_previous.mean = None
    /\ call.stats_recent.mean = Rat(1, 2)
    /\ ret # TypeError
    /\ ret.ndvi_change = None

(***************************************************************************)
(* C4  detect_deforestation estimates an area or a percentage, or alerts,  *)
(* only if previous.mean - recent.mean > ndvi_threshold and                *)
(* previous.mean > 0.4, both strictly; otherwise the alert is false and    *)
(* the severity null whatever the delta and the boundary area.             *)
(***************************************************************************)
DetectionCondition ==
    /\ call.stats_previous.mean # None
    /\ call.stats_recent.mean # None
    /\ LET p == call.stats_previous.mean
           r == call.stats_recent.mean
           t == call.ndvi_threshold
       IN  \* p - r > t and p > 4/10, cross-multiplied
           /\ (p.n * r.d - r.n * p.d) * t.d > t.n * p.d * r.d
           /\ 10 * p.n > 4 * p.d

C4_DetectionGuard ==
    (Returned("detect_deforestation") /\ ret # TypeError
     /\ ~DetectionCondition) =>
        /\ ret.deforestation_area_ha = None
        /\ ret.deforestation_percentage = None
        /\ ret.alert_triggered = FALSE
        /\ ret.severity = NoneS

C4_Witness ==
    /\ Returned("detect_deforestation")
    /\ call.stats_previous.mean = Rat(4, 10)
    /\ call.stats_recent.mean = Rat(0, 1)
    /\ call.boundary_area_ha = Rat(1000, 1)
    /\ ret.alert_triggered = FALSE
    /\ ret.severity = NoneS

(***************************************************************************)
(* C5  When delta > ndvi_threshold (a threshold >= 0) and                  *)
(* previous.mean > 0.4, the percentage is min(100, delta/previous * 100)   *)
(* and the area is boundary_area * percentage / 100; so                    *)
(* 0 < percentage <= 100 and area <= boundary area.  Previous 0.75,        *)
(* recent 0.40 over 1000 ha gives 140/3 % (46.7) and 1400/3 ha (466.7).    *)
(***************************************************************************)
C5_PctAndArea ==
    (Returned("detect_deforestation") /\ ret # TypeError
     /\ DetectionCondition) =>
        LET p == call.stats_previous.mean
            delta == RSub(p, call.stats_recent.mean)
            pct == ret.deforestation_percentage
            area == ret.deforestation_area_ha
        IN  /\ IsNumber(pct) /\ IsNumber(area)
            /\ IF RGe(delta, p)
               THEN pct = Rat(100, 1)
               ELSE RMul(pct, p) = RMul(Rat(100, 1), delta)
            /\ RMul(area, Rat(100, 1)) = RMul(call.boundary_area_ha, pct)
            /\ RGt(pct, Rat(0, 1)) /\ RLe(pct, Rat(100, 1))
            /\ RLe(area, call.boundary_area_ha)

C5_Witness ==
    /\ Returned("detect_deforestation")
    /\ call.stats_previous.mean = Rat(75, 100)
    /\ call.stats_recent.mean = Rat(40, 100)
    /\ call.boundary_area_ha = Rat(1000, 1)
    /\ call.ndvi_threshold = Rat(3, 10)
    /\ ret.deforestation_percentage = Rat(140, 3)
    /\ ret.deforestation_area_ha = Rat(1400, 3)
    /\ ret.alert_triggered
    /\ ret.severity = "critical"

(***************************************************************************)
(* C6  detect_deforestation alerts exactly when an affected area was       *)
(* estimated (Sentinel Hub) or reported (Earth Engine) and that area is    *)
(* >= min_area_ha (a positive minimum); the severity is then               *)
(* classify_severity(area); below min_area_ha the alert stays false and    *)
(* the severity null (absent from the Earth Engine dict).                  *)
(***************************************************************************)
C6_AlertIffAreaAlertable ==
    /\ (Returned("detect_deforestation") /\ ret # TypeError) =>
          LET area == ret.deforestation_area_ha
              alertable == area # None /\ RGe(area, call.min_area_ha)
          IN  /\ ret.alert_triggered <=> alertable
              /\ alertable => ret.severity = classify_severity(area)
              /\ ~alertable => ret.severity = NoneS
    /\ Returned("gee_detect_deforestation") =>
          LET area == ret.deforestation_area_ha
              alertable == area # None /\ RGe(area, call.min_area_ha)
          IN  /\ ret.alert_triggered <=> alertable
              /\ alertable => ret.severity = gee_classify_severity(area)
              /\ ~alertable => "severity" \notin DOMAIN ret

C6_Witness ==
    /\ Returned("detect_deforestation")
    /\ DetectionCondition
    /\ ret.deforestation_area_ha # None
    /\ RLt(ret.deforestation_area_ha, call.min_area_ha)
    /\ RGt(ret.deforestation_area_ha, Rat(0, 1))
    /\ ret.alert_triggered = FALSE
    /\ ret.severity = NoneS

(***************************************************************************)
(* C7  In a deforestation finding ndvi_change is null if and only if one   *)
(* of the two period means is unknown; with both means known, 0.0          *)
(* included, it is the number previous - recent (possibly 0 or negative).  *)
(***************************************************************************)
C7_ChangeNullIffUnknown ==
    (Returned("detect_deforestation") /\ ret # TypeError) =>
        LET p == call.stats_previous.mean
            r == call.stats_recent.mean
        IN  /\ ret.ndvi_change = None <=> (p = None \/ r = None)
            /\ (p # None /\ r # None) =>
                  /\ IsNumber(ret.ndvi_change)
                  /\ RAdd(ret.ndvi_change, r) = p

C7_Witness ==
    /\ Returned("detect_deforestation")
    /\ call.stats_previous.mean = Rat(0, 1)
    /\ call.stats_recent.mean = Rat(0, 1)
    /\ ret.ndvi_change = Rat(0, 1)
    /\ ret.alert_triggered = FALSE

(***************************************************************************)
(* C8  For every hotspot count >= 0 the fire finding of either backend     *)
(* has alert_triggered = (count > 0) and severity critical from 5          *)
(* hotspots, high for 1 to 4, and null (the key absent in the Earth        *)
(* Engine dict) for 0.                                                     *)
(***************************************************************************)
\* the hotspot count the provider answered
ProviderCount ==
    IF call.op = "detect_fire_hotspots"
    THEN call.resp.lines - 1
    ELSE call.count.n

FireCountKnown ==
    \/ /\ call.op = "detect_fire_hotspots"
       /\ call.resp.kind = "ok"
       /\ call.resp.status_code = 200
    \/ /\ call.op = "gee_detect_fire_hotspots"
       /\ call.count # None

C8_FireDecision ==
    (call.op \in FireOps /\ ret # Pending /\ FireCountKnown) =>
        LET count == ProviderCount
        IN  /\ ret.fire_detections = count
            /\ ret.alert_triggered = (count > 0)
            /\ count >= 5 => ret.severity = "critical"
            /\ (1 <= count /\ count <= 4) => ret.severity = "high"
            /\ count = 0 => \/ "severity" \notin DOMAIN ret
                            \/ ret.severity = NoneS

C8_Witness ==
    /\ Returned("detect_fire_hotspots")
    /\ FireCountKnown
    /\ ProviderCount = 5
    /\ ret.alert_triggered
    /\ ret.severity = "critical"

(***************************************************************************)
(* C9  classify_plant_health of a known mean v (in thousandths, k) uses    *)
(* the bands: k >= 700 healthy, min(100, 70 + (v - 0.7) * 100);            *)
(* 500 <= k < 700 healthy, 50 + (v - 0.5) * 100; 400 <= k < 500 moderate,  *)
(* 40 + (v - 0.4) * 100; 300 <= k < 400 stressed, 25 + (v - 0.3) * 150;    *)
(* 200 <= k < 300 stressed, 15 + (v - 0.2) * 100; k < 200 critical,        *)
(* max(0, v * 75); the score is that value truncated to an integer.        *)
(***************************************************************************)
BandStatus(k) ==
    IF k >= 500 THEN "healthy"
    ELSE IF k >= 400 THEN "moderate"
    ELSE IF k >= 200 THEN "stressed"
    ELSE "critical"

\* the band's formula on thousandths, truncated
BandScore(k) ==
    IF k >= 700
    THEN (IF 70 + (k - 700) \div 10 > 100 THEN 100 ELSE 70 + (k - 700) \div 10)
    ELSE IF k >= 500 THEN 50 + (k - 500) \div 10
    ELSE IF k >= 400 THEN 40 + (k - 400) \div 10
    ELSE IF k >= 300 THEN 25 + ((k - 300) * 150) \div 1000
    ELSE IF k >= 200 THEN 15 + (k - 200) \div 10
    ELSE IF k <= 0 THEN 0
    ELSE (k * 75) \div 1000

C10_UnknownHasNullScore ==
    (Returned("classify_plant_health") /\ call.ndvi = None) =>
        /\ ret.status = "unknown"
        /\ ret.score = None

(***************************************************************************)
(* C11  For every known mean in [-1, 1] the health score is an integer     *)
(* from 0 to 100 and the status one of critical, stressed, moderate,       *)
(* healthy; in every health finding the score is null if and only if the   *)
(* status is 'unknown'.                                                    *)
(***************************************************************************)
HealthStatusOf == IF call.op = "classify_plant_health" THEN ret.status ELSE ret.health_status

HealthScoreOf == IF call.op = "classify_plant_health" THEN ret.score ELSE ret.health_score

HealthMeanOf == IF call.op = "classify_plant_health" THEN call.ndvi ELSE call.stats.mean

\* the part of C11 about known means
KnownMeanScoreInRange ==
    HealthMeanOf # None =>
        /\ HealthStatusOf \in {"critical", "stressed", "moderate", "healthy"}
        /\ IsNumber(HealthScoreOf)
        /\ HealthScoreOf.d = 1
        /\ 0 <= HealthScoreOf.n /\ HealthScoreOf.n <= 100

C11_ScoreRangeAndNullIffUnknown ==
    (Returned("classify_plant_health") \/ Returned("analyze_plant_health")) =>
        /\ KnownMeanScoreInRange
        /\ HealthScoreOf = None <=> HealthStatusOf = "unknown"

(***************************************************************************)
(* C12  The health score is continuous at every band boundary: at each     *)
(* breakpoint b among 0.7, 0.5, 0.4, 0.3, 0.2 the formula of the band just *)
(* below b, evaluated at b, equals the score at b: 70, 50, 40, 25, 15.     *)
(***************************************************************************)
Breakpoints == {Rat(7, 10), Rat(5, 10), Rat(4, 10), Rat(3, 10), Rat(2, 10)}

\* the formula of the band just below the breakpoint b, at b
BandBelow(b) ==
    IF b = Rat(7, 10) THEN HealthyScore(b)
    ELSE IF b = Rat(5, 10) THEN ModerateScore(b)
    ELSE IF b = Rat(4, 10) THEN StressedHighScore(b)
    ELSE IF b = Rat(3, 10) THEN StressedLowScore(b)
    ELSE CriticalScore(b)

ScoreAtBreakpoint(b) ==
    IF b = Rat(7, 10) THEN 70
    ELSE IF b = Rat(5, 10) THEN 50
    ELSE IF b = Rat(4, 10) THEN 40
    ELSE IF b = Rat(3, 10) THEN 25
    ELSE 15

C12_ContinuousAtBreakpoints ==
    (Returned("classify_plant_health") /\ call.ndvi \in Breakpoints) =>
        /\ ret.score = PyIntVal(ScoreAtBreakpoint(call.ndvi))
        /\ BandBelow(call.ndvi) = ret.score

C12_Witness ==
    /\ Returned("classify_plant_health")
    /\ call.ndvi = Rat(4, 10)
    /\ ret.status = "moderate"
    /\ ret.score = PyIntVal(40)
    /\ StressedHighScore(call.ndvi) = PyIntVal(40)

(***************************************************************************)
(* C13  In analyze_plant_health alert_triggered is true if and only if     *)
(* health_status is 'stressed' or 'critical'; it is false for 'unknown'    *)
(* (missing data), 'moderate' and 'healthy', whatever the stressed-area    *)
(* estimate is.                                                            *)
(***************************************************************************)
C13_HealthAlertIffStressedOrCritical ==
    Returned("analyze_plant_health") =>
        /\ ret.alert_triggered <=> ret.health_status \in {"stressed", "critical"}
        /\ ret.health_status \in {"unknown", "moderate", "healthy"} =>
              ret.alert_triggered = FALSE
        /\ call.stats.mean = None =>
              (ret.health_status = "unknown" /\ ret.alert_triggered = FALSE)

C13_Witness ==
    /\ Returned("analyze_plant_health")
    /\ ret.health_status = "moderate"
    /\ ret.stressed_area_ha # None
    /\ RGt(ret.stressed_area_ha, Rat(10, 1))
    /\ ret.alert_triggered = FALSE

(***************************************************************************)
(* C14  When the health alert is triggered the severity is 'critical' if   *)
(* the status is critical; otherwise 'high' if the estimated stressed area *)
(* is strictly greater than 10 ha; otherwise 'medium' (also when the       *)
(* stressed area is null or exactly 10 ha); it is never 'low'.             *)
(***************************************************************************)
C14_HealthSeverity ==
    (Returned("analyze_plant_health") /\ ret.alert_triggered) =>
        LET area == ret.stressed_area_ha
            large == area # None /\ area.n > 10 * area.d
        IN  /\ ret.severity # "low"
            /\ ret.health_status = "critical" => ret.severity = "critical"
            /\ (ret.health_status # "critical" /\ large) =>
                  ret.severity = "high"
            /\ (ret.health_status # "critical" /\ ~large) =>
                  ret.severity = "medium"

C14_Witness ==
    /\ Returned("analyze_plant_health")
    /\ ret.alert_triggered
    /\ ret.health_status = "stressed"
    /\ ret.stressed_area_ha = Rat(10, 1)
    /\ ret.severity = "medium"

C14_NullAreaReached ==
    /\ Returned("analyze_plant_health")
    /\ ret.alert_triggered
    /\ ret.health_status = "stressed"
    /\ ret.stressed_area_ha = None
    /\ ret.severity = "medium"

(***************************************************************************)
(* C15  With mean and min known, min < stress_threshold and                *)
(* std_est = (max - min) / 4 > 0, the stressed percentage is               *)
(* clamp(50 + 30 * (threshold - mean) / std_est, 0, 100) and the stressed  *)
(* area is boundary_area * percentage / 100; so 0 <= percentage <= 100     *)
(* and area <= boundary area.  Mean 0.35, min 0.1, max 0.5, threshold 0.4  *)
(* over 100 ha gives 65 % and 65 ha.                                       *)
(***************************************************************************)
MinBelowThreshold ==
    /\ call.stats.mean # None
    /\ call.stats.min # None
    /\ call.stats.min.n * call.stress_threshold.d < call.stress_threshold.n * call.stats.min.d

SpreadPositive == call.stats.max # None /\ RGt(call.stats.max, call.stats.min)

\* 50 + 30 * (threshold - mean) / ((max - min) / 4), as 50 + 120 (t - m) / (max - min)
RawStressPct ==
    RAdd(Rat(50, 1),
         RDiv(RMul(Rat(120, 1), RSub(call.stress_threshold, call.stats.mean)),
              RSub(call.stats.max, call.stats.min)))

Clamp0To100(x) ==
    IF x.n < 0 THEN Rat(0, 1) ELSE IF x.n > 100 * x.d THEN Rat(100, 1) ELSE x

C15_StressEstimate ==
    (Returned("analyze_plant_health") /\ MinBelowThreshold /\ SpreadPositive) =>
        LET pct == ret.stressed_percentage
            area == ret.stressed_area_ha
        IN  /\ IsNumber(pct) /\ IsNumber(area)
            /\ pct = Clamp0To100(RawStressPct)
            /\ RMul(area, Rat(100, 1)) = RMul(call.boundary_area_ha, pct)
            /\ RGe(pct, Rat(0, 1)) /\ RLe(pct, Rat(100, 1))
            /\ RLe(area, call.boundary_area_ha)

C15_Witness ==
    /\ Returned("analyze_plant_health")
    /\ call.stats = [mean |-> Rat(35, 100), min |-> Rat(1, 10), max |-> Rat(5, 10)]
    /\ call.stress_threshold = Rat(4, 10)
    /\ call.boundary_area_ha = Rat(100, 1)
    /\ ret.ndvi_std = Rat(1, 10)
    /\ ret.stressed_percentage = Rat(65, 1)
    /\ ret.stressed_area_ha = Rat(65, 1)

(***************************************************************************)
(* C16  The stress estimator returns a null stressed percentage and a null *)
(* stressed area whenever min >= stress_threshold or the mean is null, and *)
(* non-null values in every other case (min known, min < threshold, mean   *)
(* known).                                                                 *)
(***************************************************************************)
C16_StressNullIffNoEvidence ==
    Returned("analyze_plant_health") =>
        /\ ret.stressed_percentage = None <=> ~MinBelowThreshold
        /\ ret.stressed_area_ha = None <=> ~MinBelowThreshold

C16_Witness ==
    /\ Returned("analyze_plant_health")
    /\ call.stats.mean # None
    /\ call.stats.min = call.stress_threshold
    /\ RGt(call.stats.max, call.stats.min)
    /\ ret.stressed_percentage = None
    /\ ret.stressed_area_ha = None

(***************************************************************************)
(* C17  With min < stress_threshold and std_est zero or unavailable (max   *)
(* unknown, or max = min) the stressed percentage is the fixed heuristic   *)
(* 10 if mean > threshold, else 50, and the stressed area is               *)
(* boundary_area * percentage / 100.                                       *)
(***************************************************************************)
C17_FallbackHeuristic ==
    (Returned("analyze_plant_health") /\ MinBelowThreshold /\ ~SpreadPositive) =>
        LET above == call.stats.mean.n * call.stress_threshold.d > call.stress_threshold.n * call.stats.mean.d
            pct == ret.stressed_percentage
        IN  /\ pct = (IF above THEN Rat(10, 1) ELSE Rat(50, 1))
            /\ ret.stressed_area_ha # None
            /\ RMul(ret.stressed_area_ha, Rat(100, 1)) = RMul(call.boundary_area_ha, pct)

C17_Witness ==
    /\ Returned("analyze_plant_health")
    /\ call.stats = [mean |-> Rat(3, 10), min |-> Rat(3, 10), max |-> Rat(3, 10)]
    /\ call.stress_threshold = Rat(4, 10)
    /\ call.boundary_area_ha = Rat(20, 1)
    /\ ret.ndvi_std = Rat(0, 1)
    /\ ret.stressed_percentage = Rat(50, 1)
    /\ ret.stressed_area_ha = Rat(10, 1)

(***************************************************************************)
(* C18  In analyze_plant_health ndvi_change_from_baseline =                *)
(* mean_ndvi - baseline_ndvi is computed whenever a baseline is supplied   *)
(* and the current mean is known, also when the baseline or the mean is    *)
(* 0.0; it is null only when the baseline is absent or the mean unknown.   *)
(***************************************************************************)
C18_BaselineDeltaWheneverKnown ==
    Returned("analyze_plant_health") =>
        LET known == call.baseline_ndvi # None /\ call.stats.mean # None
        IN  /\ ret.ndvi_change_from_baseline = None <=> ~known
            /\ known => ret.ndvi_change_from_baseline = RSub(call.stats.mean, call.baseline_ndvi)

(***************************************************************************)
(* C19  get_health_recommendations returns, in this order, exactly the     *)
(* fixed items of the status: critical 4 items, stressed 3 items first,    *)
(* moderate 2 items first, healthy 1 item first, unknown the empty list;   *)
(* a conditional item comes after the fixed ones and the list never has    *)
(* more than 4 items.                                                      *)
(***************************************************************************)
RecommendationOps == {"get_health_recommendations", "analyze_plant_health"}

StatusOfRecs == IF call.op = "analyze_plant_health" THEN ret.health_status ELSE call.health_status

DeltaOfRecs == IF call.op = "analyze_plant_health" THEN ret.ndvi_change_from_baseline ELSE call.ndvi_change

FixedItems(status) ==
    IF status = "critical"
    THEN <<"URGENT: Immediate field inspection required",
           "Check for disease outbreak (Ganoderma, Basal Stem Rot)",
           "Assess irrigation/drainage issues",
           "Consider soil nutrient analysis">>
    ELSE IF status = "stressed"
    THEN <<"Schedule field inspection within 1 week",
           "Check soil moisture levels",
           "Review fertilization program">>
    ELSE IF status = "moderate"
    THEN <<"Monitor closely over next 2 weeks",
           "Consider targeted fertilizer application">>
    ELSE IF status = "healthy"
    THEN <<"Continue current management practices">>
    ELSE <<>>

C19_FixedItemsInOrder ==
    (call.op \in RecommendationOps /\ ret # Pending) =>
        LET recs == ret.recommendations
            fixed == FixedItems(StatusOfRecs)
        IN  /\ Len(recs) <= 4
            /\ Len(recs) >= Len(fixed)
            /\ Len(recs) <= Len(fixed) + 1
            /\ SubSeq(recs, 1, Len(fixed)) = fixed
            /\ StatusOfRecs \in {"critical", "unknown"} => recs = fixed
            /\ \A i \in 1..Len(recs) : \A j \in 1..Len(recs) :
                  recs[i] = recs[j] => i = j

C19_Witness ==
    /\ Returned("get_health_recommendations")
    /\ call.health_status = "stressed"
    /\ Len(ret.recommendations) = 4
    /\ ret.recommendations[1] = "Schedule field inspection within 1 week"
    /\ ret.recommendations[4] = "Rapid decline detected - investigate pest/disease"

(***************************************************************************)
(* C20  For status 'stressed' the 4th item (rapid decline - investigate    *)
(* pest/disease) is appended if and only if the delta from baseline is     *)
(* present and strictly below -0.1; with the delta absent or >= -0.1       *)
(* (exactly -0.1 included) the list has exactly 3 items.                   *)
(***************************************************************************)
C20_RapidDeclineItem ==
    (call.op \in RecommendationOps /\ ret # Pending /\ StatusOfRecs = "stressed") =>
        LET recs == ret.recommendations
            rapid == DeltaOfRecs # None /\ 10 * DeltaOfRecs.n < -1 * DeltaOfRecs.d
        IN  /\ rapid => /\ Len(recs) = 4
                        /\ recs[4] = "Rapid decline detected - investigate pest/disease"
            /\ ~rapid => Len(recs) = 3

C20_Witness ==
    /\ Returned("get_health_recommendations")
    /\ call.health_status = "stressed"
    /\ call.ndvi_change = Rat(-1, 10)
    /\ Len(ret.recommendations) = 3

C20_AnalyzerAppendsItem ==
    /\ Returned("analyze_plant_health")
    /\ ret.health_status = "stressed"
    /\ ret.ndvi_change_from_baseline # None
    /\ RLt(ret.ndvi_change_from_baseline, Rat(-1, 10))
    /\ Len(ret.recommendations) = 4

(***************************************************************************)
(* C21  For status 'moderate' the conditional 3rd recommendation (young    *)
(* palms) is present if and only if the mean is below 0.45, and for status *)
(* 'healthy' the conditional 2nd recommendation (excellent vegetation      *)
(* density) is present if and only if the mean is above 0.8; both          *)
(* comparisons are strict.  The mean is the one the status was derived     *)
(* from, or is absent.                                                     *)
(***************************************************************************)
MeanOfRecs == IF call.op = "analyze_plant_health" THEN ret.mean_ndvi ELSE call.ndvi

MeanFitsStatus == MeanOfRecs = None \/ classify_plant_health(MeanOfRecs).status = StatusOfRecs

C21_YoungPalmsReached ==
    /\ Returned("analyze_plant_health")
    /\ ret.health_status = "moderate"
    /\ Len(ret.recommendations) = 3

C21_DenseAtBoundaryReached ==
    /\ Returned("analyze_plant_health")
    /\ ret.mean_ndvi = Rat(8, 10)
    /\ Len(ret.recommendations) = 1

C21_ZeroMeanModerateCall ==
    /\ Returned("get_health_recommendations")
    /\ call.health_status = "moderate"
    /\ call.ndvi = Rat(0, 1)
    /\ Len(ret.recommendations) = 2

(***************************************************************************)
(* C22  The engine fails the single evaluation with an error, instead of   *)
(* returning a finding, when its input is invalid: a negative boundary     *)
(* area, a mean vegetation index outside [-1, 1], or a recent period that  *)
(* is not after the previous period (days_back <= 0).                      *)
(***************************************************************************)
OutOfRange(mean) == mean # None /\ (RLt(mean, Rat(-1, 1)) \/ RGt(mean, Rat(1, 1)))

InvalidInput ==
    \/ /\ call.op = "detect_deforestation"
       /\ \/ call.days_back <= 0
          \/ RLt(call.boundary_area_ha, Rat(0, 1))
          \/ OutOfRange(call.stats_previous.mean)
          \/ OutOfRange(call.stats_recent.mean)
    \/ /\ call.op = "analyze_plant_health"
       /\ \/ RLt(call.boundary_area_ha, Rat(0, 1))
          \/ OutOfRange(call.stats.mean)

Raised == "raised" \in DOMAIN ret

C22_InvalidInputFails ==
    (InvalidInput /\ ret # Pending) => Raised

C22_ZeroDaysReturnsFinding ==
    /\ Returned("detect_deforestation")
    /\ call.days_back = 0
    /\ ~Raised
    /\ ret.period_previous = ret.period_recent

(***************************************************************************)
(* C23  The two periods built by detect_deforestation for any              *)
(* days_back >= 1 are equal-length windows of days_back days, contiguous,  *)
(* non-overlapping as inclusive date ranges (no calendar day belongs to    *)
(* both), and the previous period strictly precedes the recent one.        *)
(***************************************************************************)
DaysOf(period) == period.start .. period.end

C23_PeriodsContiguousDisjoint ==
    (Returned("detect_deforestation") /\ ~Raised /\ call.days_back >= 1) =>
        LET previous == ret.period_previous
            recent == ret.period_recent
        IN  /\ Cardinality(DaysOf(previous)) = call.days_back
            /\ Cardinality(DaysOf(recent)) = call.days_back
            /\ DaysOf(previous) \cap DaysOf(recent) = {}
            /\ previous.end + 1 = recent.start
            /\ previous.end < recent.start

C23_SharedBoundaryDay ==
    /\ Returned("detect_deforestation")
    /\ ~Raised
    /\ call.days_back >= 1
    /\ ret.period_previous.end = ret.period_recent.start
    /\ Cardinality(DaysOf(ret.period_recent)) = call.days_back + 1
    /\ ret.period_recent.end = ret.analysis_date

(***************************************************************************)
(* C24  A failed provider query is never inferred as a value: when the     *)
(* fire-hotspot query fails (exception or non-200 answer)                  *)
(* detect_fire_hotspots does not return the finding of a successful query  *)
(* reporting zero hotspots, and when the vegetation-statistics query fails *)
(* get_ndvi_stats returns mean/min/max = None, never 0.                    *)
(***************************************************************************)
FirmsFailed(resp) == resp.kind = "exception" \/ resp.status_code # 200

ZeroHotspots == [kind |-> "ok", status_code |-> 200, lines |-> 1]

StatsFailureIsUnknown ==
    (Returned("get_ndvi_stats") /\ call.resp.kind = "exception") =>
        ret.mean = None /\ ret.min = None /\ ret.max = None

FireFailureIsNotZero ==
    (Returned("detect_fire_hotspots") /\ FirmsFailed(call.resp)) =>
        ret # detect_fire_hotspots(ZeroHotspots, call.days_back, ret.analysis_date)

C24_FailureNeverInferred == StatsFailureIsUnknown /\ FireFailureIsNotZero

C24_FireFailureReportedAsZero ==
    /\ Returned("detect_fire_hotspots")
    /\ call.resp.kind = "exception"
    /\ ret.fire_detections = 0
    /\ ret.alert_triggered = FALSE

C24_StatsFailureReached ==
    /\ Returned("get_ndvi_stats")
    /\ call.resp.kind = "exception"
    /\ ret.mean = None

C24_ZeroMeanKept ==
    /\ Returned("get_ndvi_stats")
    /\ call.resp.kind = "ok"
    /\ ret.mean = Rat(0, 1)
    /\ ret.count = 2

(***************************************************************************)
(* C25  Determinism: a classifier or finding function called twice with    *)
(* identical caller-supplied inputs and identical provider statistics      *)
(* yields identical output; no output field, analysis_date and the period  *)
(* strings included, depends on an internally read clock.                  *)
(***************************************************************************)
OutputOn(today) ==
    IF call.op = "detect_deforestation"
    THEN detect_deforestation(call.stats_previous, call.stats_recent, call.boundary_area_ha, call.days_back, call.ndvi_threshold, call.min_area_ha, today)
    ELSE IF call.op = "detect_fire_hotspots"
    THEN detect_fire_hotspots(call.resp, call.days_back, today)
    ELSE IF call.op = "analyze_plant_health"
    THEN analyze_plant_health(call.stats, call.boundary_area_ha, call.baseline_ndvi, call.stress_threshold, today)
    ELSE ret

ClockedOps == {"detect_deforestation", "detect_fire_hotspots", "analyze_plant_health"}

C25_OutputIndependentOfClock ==
    (call.op \in ClockedOps /\ ret # Pending) =>
        \A today \in Days : ret = OutputOn(today)

C25_SameInputsOtherDay ==
    /\ Returned("detect_deforestation")
    /\ ret.analysis_date = 0
    /\ OutputOn(1).analysis_date = 1
    /\ OutputOn(1).period_recent # ret.period_recent
    /\ OutputOn(1).alert_triggered = ret.alert_triggered

(***************************************************************************)
(* C29  The health score and status are monotone in the mean vegetation    *)
(* index: for all known v1 <= v2 in [-1, 1], score(v1) <= score(v2) and    *)
(* status(v1) <= status(v2) in the order critical < stressed < moderate <  *)
(* healthy; consequently a health alert is triggered exactly when the      *)
(* score is below 40 (for known means).                                    *)
(***************************************************************************)
StatusRank(status) ==
    IF status = "critical" THEN 0
    ELSE IF status = "stressed" THEN 1
    ELSE IF status = "moderate" THEN 2
    ELSE 3

NotAbove(v1, health) ==
    /\ classify_plant_health(v1).score.n <= health.score.n
    /\ StatusRank(classify_plant_health(v1).status) <= StatusRank(health.status)

C29_AlertBelowForty ==
    /\ Returned("analyze_plant_health")
    /\ ret.health_score = PyIntVal(32)
    /\ ret.alert_triggered

(***************************************************************************)
(* C30  The two backends make the same decisions: for every area the       *)
(* classify_severity of the Earth Engine module equals that of the         *)
(* Sentinel Hub module, and for every hotspot count (0 included) the two   *)
(* fire findings agree on alert_triggered and on severity, a missing       *)
(* 'severity' key counting as null.                                        *)
(***************************************************************************)
SeverityOf(finding) == IF "severity" \in DOMAIN finding THEN finding.severity ELSE NoneS

FirmsAnswer(count) == [kind |-> "ok", status_code |-> 200, lines |-> count + 1]

SameFireDecision(a, b) ==
    /\ a.alert_triggered = b.alert_triggered
    /\ SeverityOf(a) = SeverityOf(b)

C30_BackendsAgree ==
    /\ Returned("classify_severity") => ret.severity = gee_classify_severity(call.area_ha)
    /\ Returned("gee_classify_severity") => ret.severity = classify_severity(call.area_ha)
    /\ (Returned("gee_detect_fire_hotspots") /\ call.count # None) =>
          SameFireDecision(ret, detect_fire_hotspots(FirmsAnswer(call.count.n), call.days_back, ret.analysis_date))
    /\ (Returned("detect_fire_hotspots") /\ ~FirmsFailed(call.resp)) =>
          SameFireDecision(ret, gee_detect_fire_hotspots(PyIntVal(ret.fire_detections), call.days_back, ret.analysis_date))

C30_Witness ==
    /\ Returned("gee_detect_fire_hotspots")
    /\ call.count = PyIntVal(0)
    /\ "severity" \notin DOMAIN ret
    /\ detect_fire_hotspots(FirmsAnswer(0), call.days_back, ret.analysis_date).severity = NoneS
    /\ ~ret.alert_triggered

C30_CriticalOnBothReached ==
    /\ Returned("detect_fire_hotspots")
    /\ ret.fire_detections = 5
    /\ ret.severity = "critical"
    /\ gee_detect_fire_hotspots(PyIntVal(5), call.days_back, ret.analysis_date).severity = "critical"

(***************************************************************************)
(* C26  In dry-run mode a batch scan never sends a notification: for every *)
(* customer, boundary and alert type no HTTP request to the WhatsApp       *)
(* gateway and no email send is performed at any point of the scan.        *)
(***************************************************************************)
C26_DryRunSendsNothing ==
    (call.op = "scan_customer" /\ call.dry_run) => outbox = <<>>

C26_Witness ==
    /\ call.op = "scan_customer"
    /\ call.dry_run
    /\ call.phone /\ call.email /\ call.fonnte_token /\ call.resend_api_key
    /\ step = "done"
    /\ \E k \in 1..Len(ret.alerts) : ret.alerts[k].type = "deforestation"
    /\ \E k \in 1..Len(db) : db[k].type = "fire"
    /\ \E k \in 1..Len(db) : db[k].type = "crop_stress"
    /\ outbox = <<>>

C26_LiveRunSends ==
    /\ call.op = "scan_customer"
    /\ ~call.dry_run
    /\ \E k \in 1..Len(outbox) : outbox[k].channel = "whatsapp"
    /\ \E k \in 1..Len(outbox) : outbox[k].channel = "email"

(***************************************************************************)
(* C27  Partial-failure isolation in scan_customer: an exception raised by *)
(* one detection step for one boundary never aborts the scan; the          *)
(* remaining detection steps of that boundary and all detection steps of   *)
(* every later boundary are still executed and scan_customer returns a     *)
(* result; boundaries_scanned counts exactly the boundaries whose          *)
(* deforestation detection returned without exception.                     *)
(***************************************************************************)
Blocks == IF HealthIncluded THEN {"deforestation", "fire", "health"} ELSE {"deforestation", "fire"}

Executed(b, block) == \E k \in 1..Len(log) : log[k].boundary = b /\ log[k].step = block

DetectionsReturned == {k \in 1..Len(log) : log[k].step = "deforestation" /\ log[k].detection = "returned"}

C27_PartialFailureIsolation ==
    call.op = "scan_customer" =>
        /\ ret = Pending => ENABLED ScanNext
        /\ \A k \in 1..Len(log) : log[k].detection = "raised" =>
              \A b \in 1..(boundary - 1) : \A block \in Blocks : Executed(b, block)
        /\ step = "done" =>
              /\ \A b \in 1..call.boundaries : \A block \in Blocks : Executed(b, block)
              /\ Len(log) = call.boundaries * Cardinality(Blocks)
              /\ ret.boundaries_scanned = Cardinality(DetectionsReturned)

C27_Witness ==
    /\ call.op = "scan_customer"
    /\ step = "done"
    /\ call.boundaries = 2
    /\ HealthIncluded
    /\ log[1].detection = "raised"
    /\ log[2].detection = "returned"
    /\ log[3].detection = "raised"
    /\ Executed(2, "health")
    /\ ret.boundaries_scanned = 1

(***************************************************************************)
(* C28  In scan_customer every triggered finding is accounted for: an      *)
(* alert that was passed to save_alert_to_db (or save_health_report_to_db) *)
(* is, when scan_customer returns, present in results['alerts'] and        *)
(* counted in results['alerts_triggered'], for all alert types, with a     *)
(* phone and/or an email, in dry-run and real runs; and alerts_triggered   *)
(* always equals the length of results['alerts'].                          *)
(***************************************************************************)
Listed(alert) == \E k \in 1..Len(ret.alerts) : ret.alerts[k] = alert

CountMatchesList == results.alerts_triggered = Len(results.alerts)

C28_EveryAlertAccounted ==
    call.op = "scan_customer" =>
        /\ CountMatchesList
        /\ step = "done" =>
              /\ \A k \in 1..Len(db) : Listed(db[k])
              /\ ret.alerts_triggered = Len(db)

C28_FireAlertLost ==
    /\ call.op = "scan_customer"
    /\ step = "done"
    /\ call.phone
    /\ call.dry_run
    /\ \E k \in 1..Len(db) : db[k].type = "fire"
    /\ ret.alerts_triggered = 0

C28_StressAlertLost ==
    /\ call.op = "scan_customer"
    /\ step = "done"
    /\ call.phone
    /\ Len(db) = 1
    /\ db[1].type = "crop_stress"
    /\ ret.alerts = <<>>
    /\ ret.health_reports = 1

C28_AccountedWithoutPhone ==
    /\ call.op = "scan_customer"
    /\ step = "done"
    /\ ~call.phone
    /\ Len(db) = 3
    /\ ret.alerts = db

====
